---- MODULE Spec2Model ----
(***************************************************************************)
(* Model of ParticleSystem (src/gpu/src/particlesystem.cpp): the particle  *)
(* store and its capacity, the two pending admission queues, the shape      *)
(* builders with the constraint lists they append, and the phase sequence  *)
(* of one update() call together with the map/unmap of the position VBO.   *)
(*                                                                         *)
(* Units: lengths, velocities and densities are integers in thousandths    *)
(* (1.0f is 1000).  A random jitter is not drawn: a position carries the    *)
(* amplitude of the jitter added to each axis in its "tol" field.           *)
(***************************************************************************)
EXTENDS Integers, Sequences, FiniteSets, TLC

\* ------------------------------------------------------------------ bounds
MaxCapacity == 4       \* largest maxParticles the constructor is given
MaxGroups == 2         \* bound on the number of recorded colour/index groups
MaxQueue == 2          \* bound on the pending requests of one queue
MaxLinks == 2          \* largest numLinks given to addRope
MaxExtent == 4         \* largest ur - ll of a bounding box on one axis
MaxGridParticles == 3  \* most particles a probed grid rebuild runs over
MaxClothCount == 4     \* largest count.x and count.y of a cloth lattice

\* ------------------------------------------------------- constructor input
particleRadius == 500  \* m_particleRadius, 0.5f

\* ----------------------------------------------------------------- inputs
Positions == {<<1000, 2000, 0>>}
Zero3 == <<0, 0, 0>>
DeltaTimes == {10000}
IterationCounts == {0, 2}   \* solverIterations the constructor is given

Min(a, b) == IF a < b THEN a ELSE b

\* ------------------------------------------------------------------ state
VARIABLES
    maxParticles,      \* m_maxParticles
    solverIterations,  \* m_solverIterations
    numParticles,      \* m_numParticles
    particles,         \* per-particle attributes: VBO position + device vectors
    particlesToAdd,    \* m_particlesToAdd (deque of float4)
    fluidsToAdd,       \* m_fluidsToAdd (deque of float4)
    colorIndex,        \* m_colorIndex
    colors,            \* m_colors
    distConstraints,   \* distance constraints held by the solver
    pointConstraints,  \* point constraints held by the solver
    rigidIndex,        \* m_rigidIndex
    mapped,            \* the VBO resource is mapped by the compute side
    pc,                \* position of control: "idle" outside update()
    iter,              \* loop counter i of update()
    deltaTime,         \* update()'s clamped deltaTime (0 outside update)
    kernelLog,         \* extern calls issued so far by the current update()
    entry,             \* numParticles and pending requests when update() was called
    dPos,              \* update()'s dPos: the positions behind the mapped pointer
    stepLog,           \* deltaTime arguments passed so far by the current update()
    probe              \* arguments and result of a function applied on its own

vars == <<maxParticles, solverIterations, numParticles, particles, particlesToAdd,
          fluidsToAdd, colorIndex, colors, distConstraints, pointConstraints,
          rigidIndex, mapped, pc, iter, deltaTime, kernelLog, entry, dPos, stepLog,
          probe>>

\* Everything but the probe.
engine == <<maxParticles, solverIterations, numParticles, particles, particlesToAdd,
            fluidsToAdd, colorIndex, colors, distConstraints, pointConstraints,
            rigidIndex, mapped, pc, iter, deltaTime, kernelLog, entry, dPos, stepLog>>

\* What no operation of a constructed engine changes.
config == <<maxParticles, solverIterations, probe>>
queues == <<particlesToAdd, fluidsToAdd>>
groups == <<colorIndex, colors>>
constraints == <<distConstraints, pointConstraints>>
control == <<mapped, pc, iter, deltaTime, kernelLog, entry, dPos, stepLog>>

NoEntry == [n |-> 0, P |-> 0, F |-> 0]
NoProbe == <<>>

\* ------------------------------------------------------------ construction
Construct ==
    /\ maxParticles \in (MaxCapacity - 1)..MaxCapacity
    /\ solverIterations \in IterationCounts
    /\ numParticles = 0
    /\ particles = <<>>
    /\ particlesToAdd = <<>>
    /\ fluidsToAdd = <<>>
    /\ colorIndex = <<>>
    /\ colors = <<>>
    /\ distConstraints = <<>>
    /\ pointConstraints = <<>>
    /\ rigidIndex = 0
    /\ mapped = FALSE
    /\ pc = "idle"
    /\ iter = 0
    /\ deltaTime = 0
    /\ kernelLog = <<>>
    /\ entry = NoEntry
    /\ dPos = <<>>
    /\ stepLog = <<>>

Init == Construct /\ probe = NoProbe

\* ------------------------------------------------------------- particle store
\* A store value: the live count and the attribute rows.
Store(n, ps) == [n |-> n, ps |-> ps]

Particle(pos, tol, vel, w, ro, phase) ==
    [pos |-> pos, tol |-> tol, vel |-> vel, w |-> w, ro |-> ro, phase |-> phase]

\* The phase tags: SOLID, FLUID, and RIGID + group index.
SOLID == <<"SOLID", 0>>
FLUID == <<"FLUID", 0>>
RIGID(group) == <<"RIGID", group>>

\* m_colors entries: a colour given by the caller, or colors[rand() % numColors],
\* whose value no operation reads.
GivenColor(rgb) == <<"given", rgb>>
PaletteColor == <<"palette", Zero3>>

\* 1.f / mass
InvMass(mass) == <<1000, mass>>

addParticleFull_never(n, max) == FALSE

\* addParticle's guard: the store is full.
addParticleFull(n, max) == n = max

\* addParticle: one row appended at slot m_numParticles, or nothing when full.
addParticle(st, max, pos, tol, vel, mass, ro, phase) ==
    IF addParticleFull(st.n, max)
    THEN st
    ELSE Store(st.n + 1,
               Append(st.ps, Particle(pos, tol, vel, InvMass(mass), ro, phase)))

\* addParticleMultiple's guard.
addParticleMultipleRejects(n, k, max) == n + k >= max

\* addParticleMultiple: the rows of the batch appended at slots
\* m_numParticles.., or nothing when the guard rejects the batch.
addParticleMultiple(st, max, rows) ==
    IF addParticleMultipleRejects(st.n, Len(rows), max)
    THEN st
    ELSE Store(st.n + Len(rows), st.ps \o rows)

\* ------------------------------------------------------------ pending queues
\* make_float4(xyz, w); tol is the jitter amplitude added to each axis of xyz.
Float4(v, w, tol) == [v |-> v, w |-> w, tol |-> tol]

\* m_particleRadius * 0.01f
Jitter == particleRadius \div 100

\* Number of requests held by a queue: size() / 2.
queueRequests_short(q) == IF Len(q) = 0 THEN 0 ELSE Len(q) \div 2 - 1

queueRequests(q) == Len(q) \div 2

\* The loop of addParticles: pop a position and a velocity/mass entry, admit.
RECURSIVE addParticlesLoop(_, _, _, _)
addParticlesLoop(st, max, q, size) ==
    IF size = 0
    THEN [st |-> st, q |-> q]
    ELSE LET pos == q[1]
             vel == q[2]
         IN  addParticlesLoop(
                 addParticle(st, max, pos.v, pos.tol, vel.v, vel.w, 1500, SOLID),
                 max, SubSeq(q, 3, Len(q)), size - 1)

\* addParticles(): nothing on an empty queue, else the loop over size() / 2.
addParticles(st, max, q) ==
    IF q = <<>>
    THEN [st |-> st, q |-> q]
    ELSE addParticlesLoop(st, max, q, queueRequests(q))

\* The loop of addFluids: pop a position/mass and a colour/density entry, admit.
RECURSIVE addFluidsLoop(_, _, _, _, _)
addFluidsLoop(st, max, q, size, color) ==
    IF size = 0
    THEN [st |-> st, q |-> q, color |-> color]
    ELSE LET pos == q[1]
             col == q[2]
         IN  addFluidsLoop(
                 addParticle(st, max, pos.v, Zero3, <<0, -1000, 0>>, pos.w, col.w, FLUID),
                 max, SubSeq(q, 3, Len(q)), size - 1, col.v)

\* ------------------------------------------------------------------ update
\* The empty-store test left out.
storeEmpty_never(n) == FALSE

\* update()'s test for the empty store.
storeEmpty(n) == n = 0

\* The extern call made at each position of update().
KernelOf(p) ==
    CASE p = "map" -> "mapGLBufferObject"
      [] p = "setParameters" -> "setParameters"
      [] p = "integrate" -> "integrateSystem"
      [] p = "calcHash" -> "calcHash"
      [] p = "sortParticles" -> "sortParticles"
      [] p = "reorder" -> "reorderDataAndFindCellStart"
      [] p = "collide" -> "collide"
      [] p = "solveFluids" -> "solveFluids"
      [] p = "collideWorld" -> "collideWorld"
      [] p = "solveDistance" -> "solveDistanceConstraints"
      [] p = "solvePoint" -> "solvePointConstraints"
      [] p = "calcVelocity" -> "calcVelocity"
      [] p = "unmap" -> "unmapGLBufferObject"

\* The for loop's test: another iteration, or on to calcVelocity.
LoopTest(j, k) == IF j < k THEN <<"calcHash", j>> ELSE <<"calcVelocity", j>>

\* Straight-line order of update()'s statements: the position after p.
Sequel(p, i, k) ==
    CASE p = "map" -> <<"setParameters", i>>
      [] p = "setParameters" -> <<"integrate", i>>
      [] p = "integrate" -> LoopTest(0, k)
      [] p = "calcHash" -> <<"sortParticles", i>>
      [] p = "sortParticles" -> <<"reorder", i>>
      [] p = "reorder" -> <<"collide", i>>
      [] p = "collide" -> <<"solveFluids", i>>
      [] p = "solveFluids" -> <<"collideWorld", i>>
      [] p = "collideWorld" -> <<"solveDistance", i>>
      [] p = "solveDistance" -> <<"solvePoint", i>>
      [] p = "solvePoint" -> LoopTest(i + 1, k)
      [] p = "calcVelocity" -> <<"unmap", i>>
      [] p = "unmap" -> <<"addParticles", i>>
      [] p = "addParticles" -> <<"addFluids", i>>
      [] p = "addFluids" -> <<"return", i>>
      [] p = "return" -> <<"idle", 0>>

\* addNewStuff() moved in front of calcVelocity and the unmap.
Successor_drainFirst(p, i, k) ==
    CASE p = "addFluids" -> <<"calcVelocity", i>>
      [] p = "unmap" -> <<"return", i>>
      [] p # "addFluids" /\ Sequel(p, i, k)[1] = "calcVelocity" ->
             <<"addParticles", Sequel(p, i, k)[2]>>
      [] OTHER -> Sequel(p, i, k)

\* The grid built once per update: later iterations start at collide.
Successor_gridOnce(p, i, k) ==
    IF p = "solvePoint" /\ i + 1 < k THEN <<"collide", i + 1>> ELSE Sequel(p, i, k)

\* The unmap left out.
Successor_noUnmap(p, i, k) ==
    IF p = "calcVelocity" THEN <<"addParticles", i>> ELSE Sequel(p, i, k)

\* An early return after calcVelocity.
Successor_earlyReturn(p, i, k) ==
    IF p = "calcVelocity" THEN <<"return", i>> ELSE Sequel(p, i, k)

\* addNewStuff() called before the unmap.
Successor_drainMapped(p, i, k) ==
    CASE p = "calcVelocity" -> <<"addParticles", i>>
      [] p = "addFluids" -> <<"unmap", i>>
      [] p = "unmap" -> <<"return", i>>
      [] OTHER -> Sequel(p, i, k)

Successor(p, i, k) == Sequel(p, i, k)

\* mapGLBufferObject / unmapGLBufferObject: the resource becomes held / free.
\* Mapping a resource that is already held is an ownership violation: the
\* call does not succeed and the step is abandoned ("fault").
mapGLBufferObject(m) == IF m THEN "fault" ELSE "held"
unmapGLBufferObject(m) == FALSE

\* The view through dPos once the buffer is mapped: slot i holds whatever the
\* VBO holds for particle i.
MappedPositions(n) == [i \in 1..n |-> <<"vbo", Zero3>>]

\* A kernel that moves positions through dPos: every particle's position is
\* what that kernel left, a value no caller knows.
WrittenBy(kernel, d) == [i \in 1..Len(d) |-> <<kernel, Zero3>>]

\* The targets of the point constraints recorded for particle index i.
PinTargets(pins, i) == {pins[k][2] : k \in {j \in 1..Len(pins) : pins[j][1] = i}}

\* solvePointConstraints over slots 1..m of d: a pinned particle is set to the
\* target of a point constraint recorded for it (any of them when several are,
\* the constraints being projected in parallel), the others stay.
RECURSIVE PinnedPositions(_, _, _)
PinnedPositions(pins, d, m) ==
    IF m = 0
    THEN {<<>>}
    ELSE LET here == IF PinTargets(pins, m - 1) = {}
                     THEN {d[m]}
                     ELSE {<<"pinned", t>> : t \in PinTargets(pins, m - 1)}
         IN  {Append(rest, v) : rest \in PinnedPositions(pins, d, m - 1), v \in here}

\* std::min(deltaTime, .05f) without the clamp.
clampDeltaTime_none(dt) == dt

\* std::min(deltaTime, .05f)
clampDeltaTime(dt) == Min(dt, 50)

\* update(deltaTime) is entered: clamp, then the empty-store test.
Update(dt) ==
    /\ pc = "idle"
    /\ deltaTime' = clampDeltaTime(dt)
    /\ entry' = [n |-> numParticles,
                 P |-> Len(particlesToAdd) \div 2,
                 F |-> Len(fluidsToAdd) \div 2]
    /\ kernelLog' = <<>>
    /\ iter' = 0
    /\ pc' = IF storeEmpty(numParticles) THEN "addParticles" ELSE "map"
    /\ UNCHANGED <<config, numParticles, particles, queues, groups, constraints,
                   rigidIndex, mapped, dPos, stepLog>>

\* One extern call of update() at position p, then on to the next statement.
Launch(p) ==
    /\ pc = p
    /\ kernelLog' = Append(kernelLog, KernelOf(p))
    /\ pc' = Successor(p, iter, solverIterations)[1]
    /\ iter' = Successor(p, iter, solverIterations)[2]
    /\ UNCHANGED <<config, numParticles, particles, queues, groups, constraints,
                   rigidIndex, deltaTime, entry>>

MapBuffer ==
    /\ pc = "map"
    /\ kernelLog' = Append(kernelLog, KernelOf("map"))
    /\ IF mapGLBufferObject(mapped) = "held"
       THEN /\ mapped' = TRUE
            /\ pc' = Successor("map", iter, solverIterations)[1]
            /\ dPos' = MappedPositions(numParticles)
       ELSE /\ mapped' = mapped
            /\ pc' = "fault"
            /\ dPos' = dPos
    /\ UNCHANGED <<config, numParticles, particles, queues, groups, constraints,
                   rigidIndex, iter, deltaTime, entry, stepLog>>
SetParameters == Launch("setParameters") /\ UNCHANGED <<mapped, dPos, stepLog>>
IntegrateSystem ==
    /\ Launch("integrate")
    /\ dPos' = WrittenBy(KernelOf("integrate"), dPos)
    /\ stepLog' = Append(stepLog, deltaTime)
    /\ UNCHANGED mapped
CalcHash == Launch("calcHash") /\ UNCHANGED <<mapped, dPos, stepLog>>
SortParticles == Launch("sortParticles") /\ UNCHANGED <<mapped, dPos, stepLog>>
ReorderDataAndFindCellStart == Launch("reorder") /\ UNCHANGED <<mapped, dPos, stepLog>>
Collide ==
    /\ Launch("collide")
    /\ dPos' = WrittenBy(KernelOf("collide"), dPos)
    /\ UNCHANGED <<mapped, stepLog>>
SolveFluids ==
    /\ Launch("solveFluids")
    /\ dPos' = WrittenBy(KernelOf("solveFluids"), dPos)
    /\ UNCHANGED <<mapped, stepLog>>
CollideWorld ==
    /\ Launch("collideWorld")
    /\ dPos' = WrittenBy(KernelOf("collideWorld"), dPos)
    /\ UNCHANGED <<mapped, stepLog>>
SolveDistanceConstraints ==
    /\ Launch("solveDistance")
    /\ dPos' = WrittenBy(KernelOf("solveDistance"), dPos)
    /\ UNCHANGED <<mapped, stepLog>>
SolvePointConstraints ==
    /\ Launch("solvePoint")
    /\ dPos' \in PinnedPositions(pointConstraints, dPos, Len(dPos))
    /\ UNCHANGED <<mapped, stepLog>>
CalcVelocity ==
    /\ Launch("calcVelocity")
    /\ stepLog' = Append(stepLog, deltaTime)
    /\ UNCHANGED <<mapped, dPos>>
UnmapBuffer ==
    /\ Launch("unmap")
    /\ mapped' = unmapGLBufferObject(mapped)
    /\ dPos' = <<>>
    /\ UNCHANGED stepLog

\* addNewStuff(), first half: addParticles().
AddParticles ==
    /\ pc = "addParticles"
    /\ LET r == addParticles(Store(numParticles, particles), maxParticles, particlesToAdd)
       IN  /\ numParticles' = r.st.n
           /\ particles' = r.st.ps
           /\ particlesToAdd' = r.q
    /\ pc' = Successor("addParticles", iter, solverIterations)[1]
    /\ UNCHANGED <<config, fluidsToAdd, groups, constraints, rigidIndex, mapped,
                   iter, deltaTime, kernelLog, entry, dPos, stepLog>>

\* addFluids() reading the group's start only after its loop.
AddFluids_lateStart ==
    /\ pc = "addFluids"
    /\ IF fluidsToAdd = <<>>
       THEN UNCHANGED <<numParticles, particles, fluidsToAdd, groups>>
       ELSE LET r == addFluidsLoop(Store(numParticles, particles), maxParticles,
                                   fluidsToAdd, queueRequests(fluidsToAdd), Zero3)
                start == r.st.n
            IN  /\ numParticles' = r.st.n
                /\ particles' = r.st.ps
                /\ fluidsToAdd' = r.q
                /\ colorIndex' = Append(colorIndex, <<start, r.st.n>>)
                /\ colors' = Append(colors, GivenColor(r.color))
    /\ pc' = Successor("addFluids", iter, solverIterations)[1]
    /\ UNCHANGED <<config, particlesToAdd, constraints, rigidIndex, mapped,
                   iter, deltaTime, kernelLog, entry, dPos, stepLog>>

\* addNewStuff(), second half: addFluids().
AddFluids ==
    /\ pc = "addFluids"
    /\ IF fluidsToAdd = <<>>
       THEN UNCHANGED <<numParticles, particles, fluidsToAdd, groups>>
       ELSE LET start == numParticles
                r == addFluidsLoop(Store(numParticles, particles), maxParticles,
                                   fluidsToAdd, queueRequests(fluidsToAdd), Zero3)
            IN  /\ numParticles' = r.st.n
                /\ particles' = r.st.ps
                /\ fluidsToAdd' = r.q
                /\ colorIndex' = Append(colorIndex, <<start, r.st.n>>)
                /\ colors' = Append(colors, GivenColor(r.color))
    /\ pc' = Successor("addFluids", iter, solverIterations)[1]
    /\ UNCHANGED <<config, particlesToAdd, constraints, rigidIndex, mapped,
                   iter, deltaTime, kernelLog, entry, dPos, stepLog>>

\* update() returns to its caller.
Return ==
    /\ pc = "return"
    /\ pc' = Successor("return", iter, solverIterations)[1]
    /\ iter' = Successor("return", iter, solverIterations)[2]
    /\ deltaTime' = 0
    /\ kernelLog' = <<>>
    /\ entry' = NoEntry
    /\ stepLog' = <<>>
    /\ UNCHANGED <<config, numParticles, particles, queues, groups, constraints,
                   rigidIndex, mapped, dPos>>

\* --------------------------------------------------------------- enqueueing
\* Calls that record a colour/index group at once stay within the model's
\* bound; a fluid drain may record one group more.
GroupRoom == Len(colorIndex) < MaxGroups
FluidGroupRoom == Len(colorIndex) <= MaxGroups

\* The request admitted at once instead of queued.
setParticleToAdd_direct(pos, vel, mass) ==
    /\ pc = "idle"
    /\ GroupRoom
    /\ LET st == addParticle(Store(numParticles, particles), maxParticles,
                             pos, <<Jitter, Jitter, 0>>, vel, mass, 1500, SOLID)
       IN  /\ numParticles' = st.n
           /\ particles' = st.ps
    /\ colorIndex' = Append(colorIndex, <<numParticles, numParticles + 1>>)
    /\ colors' = Append(colors, PaletteColor)
    /\ UNCHANGED <<config, queues, constraints, rigidIndex, control>>

setParticleToAdd(pos, vel, mass) ==
    /\ pc = "idle"
    /\ GroupRoom
    /\ Len(particlesToAdd) < 2 * MaxQueue
    /\ particlesToAdd' = Append(Append(particlesToAdd,
                                       Float4(pos, 1000, <<Jitter, Jitter, 0>>)),
                                Float4(vel, mass, Zero3))
    /\ colorIndex' = Append(colorIndex, <<numParticles, numParticles + 1>>)
    /\ colors' = Append(colors, PaletteColor)
    /\ UNCHANGED <<config, numParticles, particles, fluidsToAdd, constraints,
                   rigidIndex, control>>

setFluidToAdd(pos, color, mass, density) ==
    /\ pc = "idle"
    /\ FluidGroupRoom
    /\ Len(fluidsToAdd) < 2 * MaxQueue
    /\ fluidsToAdd' = Append(Append(fluidsToAdd, Float4(pos, mass, Zero3)),
                             Float4(color, density, Zero3))
    /\ UNCHANGED <<config, numParticles, particles, particlesToAdd, groups,
                   constraints, rigidIndex, control>>

\* ----------------------------------------------------------- shape builders
\* The constraint lists of the solver: n entries of the given arrays appended.
addDistanceConstraint(list, entries, n) == list \o SubSeq(entries, 1, n)
addPointConstraint(list, entries, n) == list \o SubSeq(entries, 1, n)

\* A constraint array of `size` entries after the loop wrote `written`:
\* entries the loop did not write hold no defined value.
Buffer(written, size) ==
    [k \in 1..size |-> IF k <= Len(written) THEN written[k] ELSE <<>>]

\* float -> int conversion: truncation toward zero (b > 0).
TruncDiv(a, b) == IF a >= 0 THEN a \div b ELSE -((-a) \div b)

\* (int)ceil(ur - ll) / spacing, stored in an int: ceil acts on the integer
\* difference, the float quotient is truncated by the conversion to int.
axisCount(lo, hi, spacing) == TruncDiv((hi - lo) * 1000, spacing)

\* The three nested loops z, y, x of a lattice fill: row index k -> (x, y, z).
LatticeRows(ll, count, distance, tol, w, ro, phase) ==
    [k \in 1..(count[1] * count[2] * count[3]) |->
        LET x == (k - 1) % count[1]
            y == ((k - 1) \div count[1]) % count[2]
            z == (k - 1) \div (count[1] * count[2])
        IN  Particle(<<ll[1] * 1000 + x * distance,
                       ll[2] * 1000 + y * distance,
                       ll[3] * 1000 + z * distance>>,
                     tol, Zero3, w, ro, phase)]

\* make_int3 of the three axis counts.
latticeCount(ll, ur, spacing) ==
    <<axisCount(ll[1], ur[1], spacing),
      axisCount(ll[2], ur[2], spacing),
      axisCount(ll[3], ur[3], spacing)>>

\* m_particleRadius * 2.5f and m_particleRadius * 2.002f
fluidDistance == (particleRadius * 5) \div 2
gridDistance == (particleRadius * 2002) \div 1000

addFluid(ll, ur, mass, density, color) ==
    /\ pc = "idle"
    /\ GroupRoom
    /\ LET start == numParticles
           distance == fluidDistance
           count == latticeCount(ll, ur, distance)
           rows == LatticeRows(ll, count, distance, <<Jitter, Jitter, Jitter>>,
                               InvMass(mass), density, FLUID)
           st == addParticleMultiple(Store(numParticles, particles), maxParticles, rows)
       IN  /\ numParticles' = st.n
           /\ particles' = st.ps
           /\ colorIndex' = Append(colorIndex, <<start, st.n>>)
           /\ colors' = Append(colors, GivenColor(color))
    /\ UNCHANGED <<config, queues, constraints, rigidIndex, control>>

addParticleGrid(ll, ur, mass, addJitter) ==
    /\ pc = "idle"
    /\ GroupRoom
    /\ LET start == numParticles
           jitter == IF addJitter THEN Jitter ELSE 0
           distance == gridDistance
           count == latticeCount(ll, ur, distance)
           rows == LatticeRows(ll, count, distance, <<jitter, jitter, jitter>>,
                               InvMass(mass), 1000, SOLID)
           st == addParticleMultiple(Store(numParticles, particles), maxParticles, rows)
       IN  /\ numParticles' = st.n
           /\ particles' = st.ps
           /\ colorIndex' = Append(colorIndex, <<start, st.n>>)
           /\ colors' = Append(colors, PaletteColor)
    /\ UNCHANGED <<config, queues, constraints, rigidIndex, control>>

\* addRope's loop: the distance constraint of link i joins startI+i-1 and startI+i.
ropeLinks(startI, numLinks, dist) ==
    [i \in 1..numLinks |-> <<startI + i - 1, startI + i, dist>>]

\* addRope's particle rows: start, then start + i * spacing for i = 1..numLinks.
ropeRows(start, spacing, numLinks, mass, phase) ==
    [k \in 1..(numLinks + 1) |->
        Particle(<<start[1] + (k - 1) * spacing[1],
                   start[2] + (k - 1) * spacing[2],
                   start[3] + (k - 1) * spacing[3]>>,
                 Zero3, Zero3, InvMass(mass), 1000, phase)]

addRope(start, spacing, dist, numLinks, mass, constrainStart) ==
    /\ pc = "idle"
    /\ GroupRoom
    /\ LET startI == numParticles
           rows == ropeRows(start, spacing, numLinks, mass, RIGID(rigidIndex))
           indicesD == ropeLinks(startI, numLinks, dist)
           st == addParticleMultiple(Store(numParticles, particles), maxParticles, rows)
       IN  /\ numParticles' = st.n
           /\ particles' = st.ps
           /\ distConstraints' = addDistanceConstraint(distConstraints, indicesD, numLinks)
           /\ pointConstraints' =
                  IF constrainStart
                  THEN addPointConstraint(pointConstraints, <<<<startI, start>>>>, 1)
                  ELSE pointConstraints
           /\ colorIndex' = Append(colorIndex, <<startI, st.n>>)
           /\ colors' = Append(colors, PaletteColor)
    /\ rigidIndex' = rigidIndex + 1
    /\ UNCHANGED <<config, queues, control>>

\* Position of lattice node (x, z) of the cloth.
clothPos(ll, spacing, x, z) ==
    <<ll[1] * 1000 + x * spacing[1], spacing[2], ll[2] * 1000 + z * spacing[3]>>

\* addHorizCloth's loops over z and x, node k = z * count.x + x: the distance
\* and point constraints written so far.
RECURSIVE clothLoop(_, _, _, _, _, _, _, _, _)
clothLoop(k, start, ll, count, spacing, dist, holdEdges, ds, ps) ==
    IF k = count[1] * count[2]
    THEN [ds |-> ds, ps |-> ps]
    ELSE LET x == k % count[1]
             z == k \div count[1]
             particleIndex == start + z * count[1] + x
             pin == <<particleIndex, clothPos(ll, spacing, x, z)>>
             ds1 == IF x > 0
                    THEN Append(ds, <<particleIndex - 1, particleIndex, dist[1]>>)
                    ELSE ds
             ps1 == IF x > 0 THEN ps ELSE Append(ps, pin)
             ds2 == IF z > 0
                    THEN Append(ds1, <<particleIndex - count[1], particleIndex, dist[2]>>)
                    ELSE ds1
             ps2 == IF z = 0 /\ holdEdges THEN Append(ps1, pin) ELSE ps1
             ps3 == IF x = count[1] - 1 /\ holdEdges THEN Append(ps2, pin) ELSE ps2
             ps4 == IF z = count[2] - 1 /\ holdEdges THEN Append(ps3, pin) ELSE ps3
         IN  clothLoop(k + 1, start, ll, count, spacing, dist, holdEdges, ds2, ps4)

\* The sizes addHorizCloth gives its constraint arrays before the loop.
clothNumDists(count) == (count[1] - 1) * (count[2] - 1) + count[1] * count[2] - 1
\* numPoints without the branch on holdEdges.
clothNumPoints_noEdges(count, holdEdges) == count[2]

clothNumPoints(count, holdEdges) ==
    IF holdEdges THEN 2 * (count[1] + count[2]) ELSE count[2]

clothRows(ll, count, spacing, mass, phase) ==
    [k \in 1..(count[1] * count[2]) |->
        Particle(clothPos(ll, spacing, (k - 1) % count[1], (k - 1) \div count[1]),
                 Zero3, Zero3, InvMass(mass), 1000, phase)]

\* make_int2 of the cloth's two axis counts (x from spacing.x, y from spacing.z).
clothCount(ll, ur, spacing) ==
    <<axisCount(ll[1], ur[1], spacing[1]), axisCount(ll[2], ur[2], spacing[3])>>

addHorizCloth(ll, ur, spacing, dist, mass, holdEdges) ==
    /\ pc = "idle"
    /\ GroupRoom
    /\ LET start == numParticles
           count == clothCount(ll, ur, spacing)
           numDists == clothNumDists(count)
           numPoints == clothNumPoints(count, holdEdges)
           loop == clothLoop(0, start, ll, count, spacing, dist, holdEdges, <<>>, <<>>)
           rows == clothRows(ll, count, spacing, mass, RIGID(rigidIndex))
           st == addParticleMultiple(Store(numParticles, particles), maxParticles, rows)
       IN  /\ numParticles' = st.n
           /\ particles' = st.ps
           /\ pointConstraints' =
                  addPointConstraint(pointConstraints, Buffer(loop.ps, numPoints), numPoints)
           /\ distConstraints' =
                  addDistanceConstraint(distConstraints, Buffer(loop.ds, numDists), numDists)
           /\ colorIndex' = Append(colorIndex, <<start, st.n>>)
           /\ colors' = Append(colors, PaletteColor)
    /\ rigidIndex' = rigidIndex + 1
    /\ UNCHANGED <<config, queues, control>>

\* length(pos - center) < radius with radius = (ur.x - ll.x) * .5f and
\* center = ll + radius, compared on doubled coordinates to stay in integers.
insideSphere(pos, ll, ur) ==
    LET ext == (ur[1] - ll[1]) * 1000
        d(a) == 2 * (pos[a] - ll[a] * 1000) - ext
    IN  d(1) * d(1) + d(2) * d(2) + d(3) * d(3) < ext * ext

\* addStaticSphere's loops z, y, x: the positions kept, in loop order.
RECURSIVE sphereLoop(_, _, _, _, _, _)
sphereLoop(k, ll, ur, count, spacing, kept) ==
    IF k = count[1] * count[2] * count[3]
    THEN kept
    ELSE LET x == k % count[1]
             y == (k \div count[1]) % count[2]
             z == k \div (count[1] * count[2])
             pos == <<ll[1] * 1000 + x * spacing,
                      ll[2] * 1000 + y * spacing,
                      ll[3] * 1000 + z * spacing>>
         IN  sphereLoop(k + 1, ll, ur, count, spacing,
                        IF insideSphere(pos, ll, ur) THEN Append(kept, pos) ELSE kept)

\* The point constraints of the kept positions: slot startI + index -> position.
spherePins(startI, posV) == [k \in 1..Len(posV) |-> <<startI + k - 1, posV[k]>>]

\* The rows of the kept positions: w = .01f, ro = 1.f.
sphereRows(posV, phase) ==
    [k \in 1..Len(posV) |-> Particle(posV[k], Zero3, Zero3, <<10, 1000>>, 1000, phase)]

\* addStaticSphere after its loops, posV holding the kept positions.
sphereAdmit(startI, posV) ==
    LET st == addParticleMultiple(Store(numParticles, particles), maxParticles,
                                  sphereRows(posV, RIGID(rigidIndex)))
    IN  /\ numParticles' = st.n
        /\ particles' = st.ps
        /\ pointConstraints' =
               addPointConstraint(pointConstraints, spherePins(startI, posV), Len(posV))
        /\ colorIndex' = Append(colorIndex, <<startI, st.n>>)
        /\ colors' = Append(colors, PaletteColor)

addStaticSphere(ll, ur, spacing) ==
    /\ pc = "idle"
    /\ GroupRoom
    /\ sphereAdmit(numParticles,
                   sphereLoop(0, ll, ur, latticeCount(ll, ur, spacing), spacing, <<>>))
    /\ rigidIndex' = rigidIndex + 1
    /\ UNCHANGED <<config, queues, distConstraints, control>>

\* Arguments the host application calls the builders with.
RopeStart == <<0, 0, 0>>
RopeSpacing == <<1000, 0, 0>>
ClothCorners == {<<2, 1>>, <<2, 2>>}
ClothSpacing == <<1000, 3000, 1000>>
FluidBox == <<3, 2, 2>>
GridBox == <<2, 2, 2>>
SphereSpacings == {1000, 600}
SphereBox == <<2, 2, 2>>

EnqueueParticleCall(pos) == setParticleToAdd(pos, Zero3, 1000)
EnqueueFluidCall(pos) == setFluidToAdd(pos, <<0, 0, 1000>>, 1000, 1000)
FluidCall == addFluid(Zero3, FluidBox, 1000, 1000, <<0, 0, 1000>>)
GridCall == addParticleGrid(Zero3, GridBox, 1000, TRUE)
RopeCall(numLinks, constrainStart) ==
    addRope(RopeStart, RopeSpacing, 1000, numLinks, 1000, constrainStart)
ClothCall(ur, holdEdges) ==
    addHorizCloth(<<0, 0>>, ur, ClothSpacing, <<1000, 1000>>, 1000, holdEdges)
SphereCall(spacing) == addStaticSphere(Zero3, SphereBox, spacing)

\* ------------------------------------------------------------ specification
Next ==
    \/ \E dt \in DeltaTimes : Update(dt)
    \/ MapBuffer
    \/ SetParameters
    \/ IntegrateSystem
    \/ CalcHash
    \/ SortParticles
    \/ ReorderDataAndFindCellStart
    \/ Collide
    \/ SolveFluids
    \/ CollideWorld
    \/ SolveDistanceConstraints
    \/ SolvePointConstraints
    \/ CalcVelocity
    \/ UnmapBuffer
    \/ AddParticles
    \/ AddFluids
    \/ Return
    \/ \E pos \in Positions : EnqueueParticleCall(pos)
    \/ \E pos \in Positions : EnqueueFluidCall(pos)
    \/ FluidCall
    \/ GridCall
    \/ \E numLinks \in 1..MaxLinks, constrainStart \in BOOLEAN :
           RopeCall(numLinks, constrainStart)
    \/ \E ur \in ClothCorners, holdEdges \in BOOLEAN : ClothCall(ur, holdEdges)
    \/ \E spacing \in SphereSpacings : SphereCall(spacing)

Spec == Init /\ [][Next]_vars

\* ---------------------------------------------------------------- helpers
InUpdate == pc # "idle"

\* Positions of update() at which a solver phase is about to run.
PhasePcs == {"integrate", "calcHash", "sortParticles", "reorder", "collide",
             "solveFluids", "collideWorld", "solveDistance", "solvePoint",
             "calcVelocity"}

\* Positions of update() from the map up to and including the unmap.
BeforeDrainPcs == {"map", "setParameters", "unmap"} \cup PhasePcs

IsPrefix(a, b) == Len(a) <= Len(b) /\ SubSeq(b, 1, Len(a)) = a

RECURSIVE Repeat(_, _)
Repeat(seq, n) == IF n = 0 THEN <<>> ELSE seq \o Repeat(seq, n - 1)

\* What the claims reckon with when a request is past capacity.
Recorded == <<numParticles, distConstraints, pointConstraints, colorIndex, colors,
              rigidIndex>>

clothArraySize(ur) ==
    clothCount(<<0, 0>>, ur, ClothSpacing)[1] * clothCount(<<0, 0>>, ur, ClothSpacing)[2]
latticeArraySize(ur, distance) ==
    latticeCount(Zero3, ur, distance)[1] * latticeCount(Zero3, ur, distance)[2]
        * latticeCount(Zero3, ur, distance)[3]
sphereArraySize(spacing) ==
    Len(sphereLoop(0, Zero3, SphereBox, latticeCount(Zero3, SphereBox, spacing),
                   spacing, <<>>))

\* Some shape builder is called with a batch of k particles.
BuilderCall(k) ==
    \/ k = latticeArraySize(FluidBox, fluidDistance) /\ FluidCall
    \/ k = latticeArraySize(GridBox, gridDistance) /\ GridCall
    \/ \E numLinks \in 1..MaxLinks, constrainStart \in BOOLEAN :
           k = numLinks + 1 /\ RopeCall(numLinks, constrainStart)
    \/ \E ur \in ClothCorners, holdEdges \in BOOLEAN :
           k = clothArraySize(ur) /\ ClothCall(ur, holdEdges)
    \/ \E spacing \in SphereSpacings : k = sphereArraySize(spacing) /\ SphereCall(spacing)

\* The batch sizes the builder calls of Next produce.
BatchSizes ==
    {latticeArraySize(FluidBox, fluidDistance), latticeArraySize(GridBox, gridDistance)}
        \cup {numLinks + 1 : numLinks \in 1..MaxLinks}
        \cup {clothArraySize(ur) : ur \in ClothCorners}
        \cup {sphereArraySize(spacing) : spacing \in SphereSpacings}

\* ------------------------------------------------------------------ claims

\* C1: after any sequence of admissions, builder calls, enqueues and updates
\* on a freshly constructed engine, 0 <= numParticles <= maxParticles.
C1_CapacityInvariant == 0 <= numParticles /\ numParticles <= maxParticles

\* C1 witness: the store has been filled to capacity.
C1_Witness == maxParticles > 0 /\ numParticles = maxParticles /\ pc = "idle"

\* C2: a request past capacity is a no-op: a shape-builder call whose batch
\* does not fit, and a drain of single admissions into a full store, leave
\* numParticles, both constraint sets, the colour/index groups and the
\* rigid-group counter as they were.
C2_RejectedRequestIsNoOp ==
    [][/\ \A k \in BatchSizes :
              (BuilderCall(k) /\ numParticles + k > maxParticles) => UNCHANGED Recorded
       /\ (AddParticles /\ numParticles = maxParticles) => UNCHANGED Recorded]_vars

\* C3: a batch of N particles is rejected only when numParticles + N exceeds
\* maxParticles; whenever numParticles + N <= maxParticles, the batch that
\* exactly fills the store included, numParticles grows by exactly N.
C3_BatchAdmittedWhenItFits ==
    [][\A k \in BatchSizes :
           BuilderCall(k) =>
               numParticles' = IF numParticles + k <= maxParticles
                               THEN numParticles + k
                               ELSE numParticles]_vars

\* C4: within an update that starts with numParticles > 0, numParticles and
\* the pending queues keep their values from the map through every phase up
\* to the unmap; they change only once calcVelocity and the unmap are done,
\* with the buffer released.
C4_DrainOnlyAfterLoop ==
    (InUpdate /\ entry.n > 0) =>
        /\ pc \in BeforeDrainPcs \cup {"addParticles"} =>
               /\ numParticles = entry.n
               /\ Len(particlesToAdd) = 2 * entry.P
               /\ Len(fluidsToAdd) = 2 * entry.F
        /\ (\/ numParticles # entry.n
            \/ Len(particlesToAdd) # 2 * entry.P
            \/ Len(fluidsToAdd) # 2 * entry.F) =>
               /\ ~mapped
               /\ Len(kernelLog) >= 2
               /\ kernelLog[Len(kernelLog) - 1] = "calcVelocity"
               /\ kernelLog[Len(kernelLog)] = "unmapGLBufferObject"

\* C4 witness: an update on a non-empty store has drained a pending request
\* of each queue.
C4_Witness ==
    /\ pc = "return"
    /\ entry.n > 0 /\ entry.P > 0 /\ entry.F > 0
    /\ numParticles > entry.n
    /\ solverIterations > 0

\* C5: when update returns, both pending queues are empty and numParticles is
\* min(maxParticles, n + P + F), n, P and F being numParticles and the
\* pending particle and fluid requests when update was called.
C5_QueuesHonoredAtNextUpdate ==
    pc = "return" =>
        /\ particlesToAdd = <<>>
        /\ fluidsToAdd = <<>>
        /\ numParticles = Min(maxParticles, entry.n + entry.P + entry.F)

\* C5 witness: an update of a non-empty store returns after draining both
\* queues, the requests not all fitting.
C5_Witness ==
    /\ pc = "return"
    /\ entry.n > 0 /\ entry.P > 0 /\ entry.F > 0
    /\ entry.n + entry.P + entry.F > maxParticles

\* C6: setParticleToAdd and setFluidToAdd leave numParticles and every
\* particle attribute unchanged and append exactly two entries (one request)
\* to their own queue, the other queue untouched.
C6_EnqueueOnlyAppends ==
    [][/\ \A pos \in Positions :
              EnqueueParticleCall(pos) =>
                  /\ numParticles' = numParticles
                  /\ particles' = particles
                  /\ Len(particlesToAdd') = Len(particlesToAdd) + 2
                  /\ SubSeq(particlesToAdd', 1, Len(particlesToAdd)) = particlesToAdd
                  /\ fluidsToAdd' = fluidsToAdd
       /\ \A pos \in Positions :
              EnqueueFluidCall(pos) =>
                  /\ numParticles' = numParticles
                  /\ particles' = particles
                  /\ Len(fluidsToAdd') = Len(fluidsToAdd) + 2
                  /\ SubSeq(fluidsToAdd', 1, Len(fluidsToAdd)) = fluidsToAdd
                  /\ particlesToAdd' = particlesToAdd]_vars

\* C6 witness: a request is pending in each queue of a non-empty store that
\* no update has touched since.
C6_Witness ==
    /\ pc = "idle"
    /\ Len(particlesToAdd) = 2
    /\ Len(fluidsToAdd) = 2
    /\ numParticles > 0

\* The calls of one solver iteration, in order.
IterationCalls ==
    <<"calcHash", "sortParticles", "reorderDataAndFindCellStart", "collide",
      "solveFluids", "collideWorld", "solveDistanceConstraints",
      "solvePointConstraints">>

\* The calls of one update of a non-empty store with k solver iterations.
UpdateCalls(k) ==
    <<"mapGLBufferObject", "setParameters", "integrateSystem">>
        \o Repeat(IterationCalls, k)
        \o <<"calcVelocity", "unmapGLBufferObject">>

\* C7: an update of a non-empty store runs integrate once, then
\* solverIterations times hash, sort, range-build, collide, fluid, world
\* bounds, distance constraints, point constraints, then calcVelocity once:
\* at every moment the calls made so far are a prefix of that sequence, and
\* once the drain is reached they are the whole of it.
C7_PhaseOrder ==
    (InUpdate /\ entry.n > 0) =>
        /\ IsPrefix(kernelLog, UpdateCalls(solverIterations))
        /\ pc \in {"addParticles", "addFluids", "return"} =>
               kernelLog = UpdateCalls(solverIterations)

\* C7 witness: an update with two solver iterations has run all its phases.
C7_Witness ==
    /\ pc = "return"
    /\ entry.n > 0
    /\ solverIterations = 2
    /\ Len(kernelLog) = 21

\* C8: outside update, and when update returns, the compute side does not
\* hold the position buffer; every integrate, solver-iteration and velocity
\* phase runs while it is held.
C8_BufferHeldExactlyDuringPhases ==
    /\ pc \in {"idle", "return"} => ~mapped
    /\ pc \in PhasePcs => mapped

\* C8 witness: second iteration's collide is about to run on the held buffer.
C8_Witness == pc = "collide" /\ iter = 1 /\ mapped

C10_RopeShape ==
    [][\A n \in 1..MaxLinks, constrainStart \in BOOLEAN :
           (RopeCall(n, constrainStart) /\ numParticles + n + 1 <= maxParticles) =>
               LET s == numParticles
               IN  /\ numParticles' = s + n + 1
                   /\ Len(particles') = s + n + 1
                   /\ \A i \in 0..n :
                          particles'[s + i + 1].pos = <<i * 1000, 0, 0>>
                   /\ distConstraints' =
                          distConstraints \o [i \in 1..n |-> <<s + i - 1, s + i, 1000>>]
                   /\ pointConstraints' =
                          IF constrainStart
                          THEN Append(pointConstraints, <<s, <<0, 0, 0>>>>)
                          ELSE pointConstraints]_vars

\* ------------------------------------------------------ update's time step
\* The deltaTime values update() is called with: below the clamp, just above
\* it, and a frame hitch of ten seconds.
ClampDeltaTimes == {20, 60, 10000}

\* update() called with every such deltaTime, between enqueues and rope calls.
ClampNext ==
    \/ \E dt \in ClampDeltaTimes : Update(dt)
    \/ MapBuffer
    \/ SetParameters
    \/ IntegrateSystem
    \/ CalcHash
    \/ SortParticles
    \/ ReorderDataAndFindCellStart
    \/ Collide
    \/ SolveFluids
    \/ CollideWorld
    \/ SolveDistanceConstraints
    \/ SolvePointConstraints
    \/ CalcVelocity
    \/ UnmapBuffer
    \/ AddParticles
    \/ AddFluids
    \/ Return
    \/ \E pos \in Positions : EnqueueParticleCall(pos)
    \/ \E pos \in Positions : EnqueueFluidCall(pos)
    \/ \E constrainStart \in BOOLEAN : RopeCall(1, constrainStart)

SpecClamp == Init /\ [][ClampNext]_vars

\* C11: update called with a deltaTime of 0.05 or more leaves the engine in
\* the state update(0.05) leaves it in; the clamped value min(deltaTime, 0.05)
\* stays the step of the whole update, and it is the step passed to
\* integrateSystem and to calcVelocity, once each.
C11_TimestepClamp ==
    [][/\ \A dt \in ClampDeltaTimes :
              Update(dt) => /\ deltaTime' = Min(dt, 50)
                            /\ dt >= 50 => Update(50)
       /\ (pc # "idle" /\ pc' # "idle") => deltaTime' = deltaTime
       /\ \A k \in 1..Len(stepLog') : stepLog'[k] = deltaTime'
       /\ IntegrateSystem => Len(stepLog') = 1
       /\ CalcVelocity => Len(stepLog') = 2]_vars

\* C11 witness: an update called with a deltaTime above 0.05 has passed the
\* clamped step 0.05 to integrateSystem and, after two solver iterations, to
\* calcVelocity.
C11_Witness ==
    /\ pc = "unmap"
    /\ solverIterations = 2
    /\ stepLog = <<50, 50>>

\* ------------------------------------------------------ axis particle counts
\* The spacings the lattice builders divide by: the cloth's and the sphere's
\* caller-given spacing, 2.002 and 2.5 particle radii, and others.
AxisSpacings == {500, 600, 1000, gridDistance, fluidDistance, 3000}

\* One axis of an integer bounding box and a spacing.
AxisInputs ==
    {[op |-> "axisCount", ll |-> ll, ur |-> ll + ext, spacing |-> sp, count |-> 0,
      done |-> FALSE] : ll \in -1..1, ext \in 0..MaxExtent, sp \in AxisSpacings}

\* A builder computes the particle count of one axis.
AxisCountCall ==
    /\ probe.op = "axisCount"
    /\ ~probe.done
    /\ probe' = [probe EXCEPT !.count = axisCount(probe.ll, probe.ur, probe.spacing),
                              !.done = TRUE]
    /\ UNCHANGED engine

AxisCountInit == Construct /\ probe \in AxisInputs

SpecAxisCount == AxisCountInit /\ [][AxisCountCall]_vars

\* ceil(a / b) for a >= 0 and b > 0.
CeilDiv(a, b) == (a + b - 1) \div b

\* C12: the axis particle count a lattice builder computes is
\* ceil(extent / spacing), extent = ur - ll, for every integer bounding box
\* and positive spacing.
C12_AxisCountIsCeil ==
    probe.done => probe.count = CeilDiv((probe.ur - probe.ll) * 1000, probe.spacing)

\* A solver iteration of the current update has just ended.
IterationEnded ==
    /\ mapped
    /\ kernelLog # <<>>
    /\ kernelLog[Len(kernelLog)] = "solvePointConstraints"

\* C13: at the end of every solver iteration of every update, each particle
\* that has a point constraint is exactly at the pinned target of that
\* constraint, whatever collide, solveFluids, collideWorld and
\* solveDistanceConstraints did to it in that iteration.
C13_PointConstraintExactness ==
    IterationEnded =>
        \A k \in 1..Len(pointConstraints) :
            pointConstraints[k][1] < numParticles =>
                dPos[pointConstraints[k][1] + 1] = <<"pinned", pointConstraints[k][2]>>

\* -------------------------------------------------------- spatial hash grid
\* The constructor's gridSize, m_params.worldOrigin and m_params.cellSize
\* (twice the particle radius).
gridSize == <<2, 2, 2>>
worldOrigin == Zero3
cellSize == 2 * particleRadius

\* The z extent left out of the cell count.
numGridCells_flat(size) == size[1] * size[2]

\* m_numGridCells
numGridCells(size) == size[1] * size[2] * size[3]

\* Positions a particle can have when the grid is built: inside each cell
\* layer, below the grid and beyond it.
GridPositions ==
    {<<-500, 500, 500>>, <<500, 500, 500>>, <<1500, 500, 500>>, <<500, 1500, 1500>>,
     <<500, 500, 1500>>, <<2500, 2500, 2500>>}

Clamp(v, lo, hi) == IF v < lo THEN lo ELSE IF v > hi THEN hi ELSE v

\* Cell coordinate of a position on axis a, kept inside the grid.
calcGridPos(p, a) == Clamp((p[a] - worldOrigin[a]) \div cellSize, 0, gridSize[a] - 1)

\* Flattened cell id.
calcGridHash(p) ==
    calcGridPos(p, 3) * gridSize[2] * gridSize[1]
        + calcGridPos(p, 2) * gridSize[1] + calcGridPos(p, 1)

\* calcHash over n particles: (hash, original index) per particle.
calcHash(pos, n) == [i \in 1..n |-> <<calcGridHash(pos[i]), i - 1>>]

\* sortParticles: the outcomes of sorting the (hash, index) pairs by hash,
\* the order within a cell being free.
sortParticles(pairs, n) ==
    {[k \in 1..n |-> pairs[f[k]]] :
        f \in {g \in [1..n -> 1..n] :
                  /\ \A a, b \in 1..n : a # b => g[a] # g[b]
                  /\ \A a, b \in 1..n : a < b => pairs[g[a]][1] <= pairs[g[b]][1]}}

\* reorderDataAndFindCellStart: per cell the [start, end) slice of the sorted
\* pairs whose hash is the cell id, an empty range for a cell without any.
findCellStart(sorted, n, cells) ==
    [c \in 0..(cells - 1) |->
        LET at == {k \in 1..n : sorted[k][1] = c}
        IN  IF at = {}
            THEN <<0, 0>>
            ELSE <<(CHOOSE k \in at : \A j \in at : k <= j) - 1,
                   CHOOSE k \in at : \A j \in at : k >= j>>]

\* The particle positions a rebuild can meet: up to MaxGridParticles of them.
GridInputs ==
    UNION {[1..n -> GridPositions] : n \in 0..MaxGridParticles}

GridInit ==
    /\ Construct
    /\ \E pos \in GridInputs :
           probe = [op |-> "grid", step |-> "predicted", pos |-> pos,
                    gridParticle |-> <<>>, cell |-> <<>>]

\* calcHash(m_dGridParticleHash, m_dGridParticleIndex, dPos, m_numParticles)
GridCalcHash ==
    /\ probe.op = "grid" /\ probe.step = "predicted"
    /\ probe' = [probe EXCEPT !.step = "hashed",
                              !.gridParticle = calcHash(probe.pos, Len(probe.pos))]
    /\ UNCHANGED engine

\* sortParticles(m_dGridParticleHash, m_dGridParticleIndex, m_numParticles)
GridSortParticles ==
    /\ probe.op = "grid" /\ probe.step = "hashed"
    /\ \E sorted \in sortParticles(probe.gridParticle, Len(probe.pos)) :
           probe' = [probe EXCEPT !.step = "sorted", !.gridParticle = sorted]
    /\ UNCHANGED engine

\* reorderDataAndFindCellStart(m_dCellStart, m_dCellEnd, ..., m_numParticles,
\* m_numGridCells)
GridFindCellStart ==
    /\ probe.op = "grid" /\ probe.step = "sorted"
    /\ probe' = [probe EXCEPT !.step = "ranged",
                              !.cell = findCellStart(probe.gridParticle, Len(probe.pos),
                                                     numGridCells(gridSize))]
    /\ UNCHANGED engine

\* The rest of the iteration moves a particle; the next iteration rebuilds.
GridMove ==
    /\ probe.op = "grid" /\ probe.step = "ranged"
    /\ \E i \in 1..Len(probe.pos), p \in GridPositions :
           probe' = [probe EXCEPT !.step = "predicted", !.pos[i] = p]
    /\ UNCHANGED engine

GridNext == GridCalcHash \/ GridSortParticles \/ GridFindCellStart \/ GridMove

SpecGrid == GridInit /\ [][GridNext]_vars

\* The cells whose slice holds sorted entry k (1-based).
CellsHolding(k) ==
    {c \in DOMAIN probe.cell : probe.cell[c][1] < k /\ k <= probe.cell[c][2]}

RECURSIVE SumOver(_, _)
SumOver(f, S) ==
    IF S = {} THEN 0 ELSE LET c == CHOOSE x \in S : TRUE IN f[c] + SumOver(f, S \ {c})

\* C14: after every rebuild of the grid over the current particles, every
\* particle index appears in exactly one cell's [start, end) slice of the
\* sorted permutation, a cell's slice holds only particles whose hash is the
\* cell id, a cell without particles has an empty range, the sizes of the
\* ranges sum to the number of particles, and a particle outside the grid has
\* the hash of a boundary cell, never an invalid one.
C14_GridCoverage ==
    (probe.op = "grid" /\ probe.step = "ranged") =>
        LET n == Len(probe.pos)
            sorted == probe.gridParticle
            cells == DOMAIN probe.cell
        IN  /\ \A i \in 0..(n - 1) :
                   Cardinality({<<c, k>> \in cells \X (1..n) :
                                   c \in CellsHolding(k) /\ sorted[k][2] = i}) = 1
            /\ \A c \in cells, k \in 1..n :
                   c \in CellsHolding(k) => calcGridHash(probe.pos[sorted[k][2] + 1]) = c
            /\ \A c \in cells :
                   (\A i \in 1..n : calcGridHash(probe.pos[i]) # c) =>
                       probe.cell[c][1] = probe.cell[c][2]
            /\ SumOver([c \in cells |-> probe.cell[c][2] - probe.cell[c][1]], cells) = n
            /\ \A i \in 1..n :
                   /\ calcGridHash(probe.pos[i]) \in cells
                   /\ \A a \in 1..3 : calcGridPos(probe.pos[i], a) \in 0..(gridSize[a] - 1)

\* C14 witness: a rebuild over three particles, one of them beyond the grid
\* and two sharing a cell, has built the cell ranges.
C14_Witness ==
    /\ probe.op = "grid" /\ probe.step = "ranged"
    /\ Len(probe.pos) = 3
    /\ \E i \in 1..3 : probe.pos[i] = <<2500, 2500, 2500>>
    /\ \E i, j \in 1..3 : i # j /\ calcGridHash(probe.pos[i]) = calcGridHash(probe.pos[j])
    /\ \E c \in DOMAIN probe.cell : probe.cell[c][2] - probe.cell[c][1] = 2

\* C15: an update entered with numParticles = 0 makes no extern call at all
\* (no map, no integrate, no solver iteration, no calcVelocity) and leaves the
\* buffer unmapped; it only drains, the discrete-particle queue first (the
\* fluid queue still as it was) and the fluid queue second, then returns, so
\* every admitted fluid particle sits behind the admitted discrete ones.
C15_EmptyStoreOnlyDrains ==
    (InUpdate /\ entry.n = 0) =>
        /\ pc \in {"addParticles", "addFluids", "return"}
        /\ kernelLog = <<>>
        /\ stepLog = <<>>
        /\ ~mapped
        /\ pc = "addParticles" =>
               /\ numParticles = 0
               /\ Len(particlesToAdd) = 2 * entry.P
               /\ Len(fluidsToAdd) = 2 * entry.F
        /\ pc = "addFluids" =>
               /\ particlesToAdd = <<>>
               /\ Len(fluidsToAdd) = 2 * entry.F
               /\ numParticles = Min(maxParticles, entry.P)
        /\ pc = "return" =>
               /\ fluidsToAdd = <<>>
               /\ \A a, b \in 1..Len(particles) :
                      (particles[a].phase = FLUID /\ particles[b].phase = SOLID) => b < a

\* C15 witness: an update of an empty store returns having admitted a queued
\* discrete particle and a queued fluid particle.
C15_Witness ==
    /\ pc = "return"
    /\ entry.n = 0 /\ entry.P > 0 /\ entry.F > 0
    /\ numParticles = entry.P + entry.F

\* C16: a drain of a non-empty fluid queue appends exactly one group
\* [start, end) with start = numParticles before the drain and end =
\* numParticles after it; the slots start..end-1 are exactly the particles
\* this drain admitted, all of them fluid (none when the store was full); a
\* drain of an empty fluid queue appends no group.
C16_OneFluidGroupPerDrain ==
    [][AddFluids =>
          IF fluidsToAdd = <<>>
          THEN colorIndex' = colorIndex /\ colors' = colors
          ELSE /\ Len(colorIndex') = Len(colorIndex) + 1
               /\ Len(colors') = Len(colors) + 1
               /\ SubSeq(colorIndex', 1, Len(colorIndex)) = colorIndex
               /\ colorIndex'[Len(colorIndex')] = <<numParticles, numParticles'>>
               /\ numParticles' - numParticles =
                      Min(queueRequests(fluidsToAdd), maxParticles - numParticles)
               /\ Len(particles') = numParticles'
               /\ SubSeq(particles', 1, numParticles) = particles
               /\ \A i \in (numParticles + 1)..numParticles' :
                      particles'[i].phase = FLUID]_vars

\* C16 witness: an update has drained two fluid samples into one group of two
\* fluid particles behind the particles the store already held.
C16_Witness ==
    /\ pc = "return"
    /\ entry.n > 0 /\ entry.F = 2
    /\ colorIndex # <<>>
    /\ colorIndex[Len(colorIndex)] = <<numParticles - 2, numParticles>>
    /\ particles[numParticles].phase = FLUID
    /\ particles[numParticles - 1].phase = FLUID

\* C17: every particle index stored in a distance constraint or a point
\* constraint by addRope, addHorizCloth or addStaticSphere refers to an
\* admitted particle, i.e. is below numParticles, also when the builder's
\* batch was rejected for capacity.
C17_ConstraintIndicesAdmitted ==
    /\ \A k \in 1..Len(distConstraints) :
           /\ distConstraints[k][1] < numParticles
           /\ distConstraints[k][2] < numParticles
    /\ \A k \in 1..Len(pointConstraints) : pointConstraints[k][1] < numParticles

\* Two recorded ranges share a slot.
RangesOverlap(g, h) == g[1] < h[2] /\ h[1] < g[2] /\ g[1] < g[2] /\ h[1] < h[2]

\* C18: when update returns having admitted every discrete particle that was
\* queued (the store had room for all of them), each slot they occupy,
\* entry.n .. entry.n + P - 1, is named by a range (s, s + 1) recorded when
\* the particle was enqueued, no two recorded ranges overlap, and every
\* recorded range lies within [0, numParticles].
C18_EnqueuedRangeNamesSlot ==
    (pc = "return" /\ entry.P > 0 /\ entry.n + entry.P <= maxParticles) =>
        /\ \A s \in entry.n..(entry.n + entry.P - 1) :
               \E k \in 1..Len(colorIndex) : colorIndex[k] = <<s, s + 1>>
        /\ \A k, l \in 1..Len(colorIndex) :
               k # l => ~RangesOverlap(colorIndex[k], colorIndex[l])
        /\ \A k \in 1..Len(colorIndex) :
               0 <= colorIndex[k][1] /\ colorIndex[k][2] <= numParticles

\* ------------------------------------------------- cloth constraint buffers
\* The lattice sizes addHorizCloth's loop runs over, with either holdEdges.
ClothInputs ==
    {[op |-> "cloth", count |-> <<cx, cy>>, holdEdges |-> h, done |-> FALSE,
      di |-> 0, pi |-> 0, indicesD |-> <<>>, indicesP |-> <<>>] :
        cx \in 1..MaxClothCount, cy \in 1..MaxClothCount, h \in BOOLEAN}

ClothInit == Construct /\ probe \in ClothInputs

\* addHorizCloth sizes its constraint arrays, then its loop fills them: di and
\* pi are the loop's final write positions, indicesD and indicesP the arrays
\* the way addDistanceConstraint / addPointConstraint are given them.
ClothLoopCall ==
    /\ probe.op = "cloth"
    /\ ~probe.done
    /\ LET loop == clothLoop(0, 0, <<0, 0>>, probe.count, ClothSpacing, <<1000, 1000>>,
                             probe.holdEdges, <<>>, <<>>)
       IN  probe' = [probe EXCEPT
                        !.done = TRUE,
                        !.di = Len(loop.ds),
                        !.pi = Len(loop.ps),
                        !.indicesD = Buffer(loop.ds, clothNumDists(probe.count)),
                        !.indicesP = Buffer(loop.ps,
                                            clothNumPoints(probe.count, probe.holdEdges))]
    /\ UNCHANGED engine

SpecCloth == ClothInit /\ [][ClothLoopCall]_vars

\* C19: for every lattice size count.x >= 1, count.y >= 1 and both values of
\* holdEdges, addHorizCloth's loop writes exactly numDists =
\* (count.x-1)*(count.y-1) + count.x*count.y - 1 distance constraints and
\* exactly numPoints point constraints (2*(count.x+count.y) with holdEdges,
\* count.y without): no write lands past the end of a constraint array and no
\* entry handed to addDistanceConstraint / addPointConstraint is unwritten.
C19_ClothBuffersExactlyFilled ==
    (probe.op = "cloth" /\ probe.done) =>
        LET cx == probe.count[1]
            cy == probe.count[2]
        IN  /\ probe.di = (cx - 1) * (cy - 1) + cx * cy - 1
            /\ probe.pi = IF probe.holdEdges THEN 2 * (cx + cy) ELSE cy
            /\ probe.di = Len(probe.indicesD)
            /\ probe.pi = Len(probe.indicesP)
            /\ \A k \in 1..Len(probe.indicesD) : probe.indicesD[k] # <<>>
            /\ \A k \in 1..Len(probe.indicesP) : probe.indicesP[k] # <<>>

\* C19 witness: the loop over a 2 x 3 lattice with held edges has written its
\* 7 distance constraints and 10 point constraints.
C19_Witness ==
    /\ probe.op = "cloth" /\ probe.done
    /\ probe.count = <<2, 3>> /\ probe.holdEdges
    /\ probe.di = 7 /\ probe.pi = 10

\* C20: no admission unregisters, writes and re-registers the position buffer
\* while the compute side holds it mapped: whenever update is at its queue
\* drain, on the empty-store path as on the normal one, the buffer is
\* unmapped and no dPos pointer into it is live, and every step that grows
\* the store starts from such a state.
C20_AdmissionOnlyWhenUnmapped ==
    [][/\ pc \in {"addParticles", "addFluids"} => (~mapped /\ dPos = <<>>)
       /\ numParticles' > numParticles => (~mapped /\ dPos = <<>>)]_vars

\* C20 witness: on the normal path the drain has admitted a queued particle
\* after the step's phases, and the fluid drain is about to run.
C20_Witness ==
    /\ pc = "addFluids"
    /\ entry.n > 0 /\ entry.P > 0 /\ entry.F > 0
    /\ numParticles > entry.n
    /\ kernelLog = UpdateCalls(solverIterations)
    /\ ~mapped

TypeOK ==
    /\ numParticles \in 0..MaxCapacity
    /\ Len(particles) = numParticles
    /\ Len(colorIndex) = Len(colors)

====
